---- MODULE Spec2Model ----
(***************************************************************************)
(* A model of getMultiPrimerSet.py: the region loop that gathers candidate *)
(* primer pairs (lines 124-195), the enumeration of cross-region           *)
(* combinations (lines 223-240) and the concurrent scoring and best-score  *)
(* fold (lines 242-261).                                                   *)
(*                                                                         *)
(* The script is one top-level run.  Three specifications cover it:        *)
(*   SpecRun     the script from line 124 on, for every region table and   *)
(*               every answer of the primer-design service;                *)
(*   SpecSelect  the block at lines 223-240, entered with every candidate  *)
(*               pool the region loop can build;                           *)
(*   SpecFold    the block at lines 242-261, entered in the state lines    *)
(*               229-238 leave: num_valid_combinations is not bound.       *)
(* They are separate because the run cannot pass line 198 (the default     *)
(* argument target_tm is an unbound name) nor line 240 (len() of an        *)
(* islice): each block is entered here in the states the code before it    *)
(* computes.  The loop of line 245 cannot pass line 256 (the name line 240 *)
(* should have bound), so that a run makes at most one turn of it.         *)
(***************************************************************************)
EXTENDS Integers, Sequences, FiniteSets, TLC

VARIABLES
    pc,                 \* position of the run in the script
    halt,               \* "" while running, else how the run ended
    df,                 \* the region table: a sequence of <<start, end>>
    idx,                \* the row the region loop is at (1-based)
    seen_names,         \* line 131
    modified_names,     \* line 132
    primers_all,        \* line 134: list of lists, flat list after line 193
    names,              \* line 195
    calls,              \* history: the design_primers calls made so far
    eval,               \* args.eval
    cpus,               \* args.cpus
    combinations,       \* line 229: the raw subsets the islice hands out
    valid_combinations, \* lines 232-235
    num_valid_combinations, \* line 240
    best_score,         \* lines 185, 237
    best_comb,          \* lines 186, 238
    dg,                 \* primer3.calcHeterodimer(..).dg per candidate pair
    workq,              \* executor work queue (submitted, not started)
    running,            \* tasks a worker thread is executing
    results,            \* future.result() of every finished task
    finished,           \* as_completed: finished futures not yet yielded
    snapshot,           \* as_completed: futures finished before it was called
    folded,             \* the tasks the fold consumed, in order
    written             \* whether the result file was written

vars == <<pc, halt, df, idx, seen_names, modified_names, primers_all, names,
          calls, eval, cpus, combinations, valid_combinations,
          num_valid_combinations, best_score, best_comb, dg, workq, running, results, finished, snapshot, folded,
          written>>

runVars == <<df, idx, seen_names, modified_names, calls>>
selectVars == <<eval, combinations, valid_combinations,
                num_valid_combinations>>
foldVars == <<cpus, dg, workq, running, results, finished, snapshot, folded,
              written>>

----------------------------------------------------------------------------
(* Bounds of the model *)

MaxRows == 3        \* rows of the region table
MaxRet == 2         \* pairs the design service returns for one region
MaxGroups == 3      \* regions that contribute to a candidate pool
MaxEval == 2        \* args.eval
MaxCpus == 2        \* args.cpus

(* Program constants: the argparse defaults *)

target_tm == 65
product_size_min == 400
product_size_max == 800

(* The rows a region table is drawn from: two rows that fit the product    *)
(* size, one that spans 900 bases.                                         *)
RowChoices == {<<100, 500>>, <<300, 700>>, <<100, 1000>>}

(* Heterodimer energies the thermodynamics routine may answer.  Multiples  *)
(* of 6, so that the mean over 1, 3 or 6 pairs is an integer.              *)
DgValues == {-12, -6}

(* Offsets between the left and the right primer Tm of a returned pair;    *)
(* the pool-wide Tm spread equals the offset.                              *)
TmOffsets == {4, 5}

----------------------------------------------------------------------------
(* Python values *)

None == <<>>

\* a name no statement has bound yet
Unbound == "unbound"

\* float('inf') and finite numbers
PosInf == [inf |-> TRUE, val |-> 0]
Fin(n) == [inf |-> FALSE, val |-> n]

\* a > b
GT(a, b) == IF a.inf THEN ~b.inf ELSE (~b.inf /\ a.val > b.val)

\* a * 0.9 > b
ScaledGT(a, b) == IF a.inf THEN ~b.inf ELSE (~b.inf /\ 9 * a.val > 10 * b.val)

\* a > 4
GT4(a) == a.inf \/ a.val > 4

Range(s) == {s[j] : j \in DOMAIN s}

RECURSIVE Sum(_)
Sum(s) == IF s = <<>> THEN 0 ELSE Head(s) + Sum(Tail(s))

Max(S) == CHOOSE x \in S : \A y \in S : y <= x
Min(S) == CHOOSE x \in S : \A y \in S : x <= y
Abs(x) == IF x < 0 THEN -x ELSE x

RECURSIVE Flatten(_)
Flatten(ll) == IF ll = <<>> THEN <<>> ELSE Head(ll) \o Flatten(Tail(ll))

----------------------------------------------------------------------------
(* The region loop, lines 137-180 *)

\* line 142: 'Target ' + str(start) + "-" + str(end)
NameOf(row) == <<"Target", row[1], row[2]>>

\* What primer3.bindings.designPrimers answers: it raises, or returns a
\* dict announcing `num` pairs of which the first `keys` are present,
\* whose left and right Tm differ by `off`.
ServiceAnswers(offs) ==
    { [raises |-> TRUE, num |-> 0, keys |-> 0, off |-> o] : o \in offs }
    \cup { [raises |-> FALSE, num |-> n, keys |-> k, off |-> o] :
             n \in 0..MaxRet, k \in 0..MaxRet, o \in offs }

\* lines 102-117: the dict built for pair i (0-based) of a region
PrimerPair(name, primers, i) ==
    [ Forward_Primer |-> <<"LEFT", name, i>>,
      Reverse_Primer |-> <<"RIGHT", name, i>>,
      Forward_tm     |-> target_tm + 1 - primers.off,  \* PRIMER_RIGHT_i_TM
      Reverse_tm     |-> target_tm + 1,                \* PRIMER_LEFT_i_TM
      Product_Size   |-> product_size_min + 100 * i,
      name           |-> name ]

\* lines 92-121.  The service call of line 92 stands before the try: what
\* it raises leaves the function.  A missing key inside the loop is caught
\* and the pairs built so far are returned.
design_primers(name, primers) ==
    IF primers.raises
    THEN [raised |-> TRUE, value |-> <<>>]
    ELSE IF primers.num = 0
    THEN [raised |-> FALSE, value |-> <<>>]
    ELSE LET n == IF primers.keys < primers.num THEN primers.keys
                  ELSE primers.num
         IN  [raised |-> FALSE,
              value  |-> [i \in 1..n |-> PrimerPair(name, primers, i - 1)]]

\* lines 144-146: the row is larger than the product size: break
RowTooLarge ==
    /\ pc = "rows"
    /\ idx <= Len(df)
    /\ df[idx][2] - df[idx][1] > product_size_max
    /\ pc' = "broke"
    /\ UNCHANGED <<halt, runVars, primers_all, names, selectVars, best_score,
                   best_comb, foldVars>>

\* lines 149-158: the name was seen before.  Line 155 is the only write of
\* modified_names and stands after line 154, where `random`, never
\* imported, is an unbound name: modified_names is empty at the test of
\* line 151 and the first collision ends the run.
RowNameSeen ==
    /\ pc = "rows"
    /\ idx <= Len(df)
    /\ ~(df[idx][2] - df[idx][1] > product_size_max)
    /\ NameOf(df[idx]) \in seen_names
    /\ NameOf(df[idx]) \notin DOMAIN modified_names
    /\ pc' = "halted"
    /\ halt' = "NameError: random (line 154)"
    /\ UNCHANGED <<runVars, primers_all, names, selectVars, best_score,
                   best_comb, foldVars>>

\* lines 159-180: a new name: design primers for the row
RowDesign ==
    /\ pc = "rows"
    /\ idx <= Len(df)
    /\ ~(df[idx][2] - df[idx][1] > product_size_max)
    /\ NameOf(df[idx]) \notin seen_names
    /\ \E primers \in ServiceAnswers({4}) :
         LET name == NameOf(df[idx])
             primer_tmp == design_primers(name, primers)
         IN  /\ seen_names' = seen_names \cup {name}
             /\ calls' = Append(calls, [row |-> idx, name |-> name,
                                        primers |-> primers])
             /\ IF primer_tmp.raised
                THEN /\ pc' = "halted"
                     /\ halt' = "uncaught exception of designPrimers (line 92)"
                     /\ UNCHANGED <<idx, primers_all>>
                ELSE /\ idx' = idx + 1
                     /\ primers_all' =
                          IF Len(primer_tmp.value) > 0
                          THEN Append(primers_all, primer_tmp.value)
                          ELSE primers_all
                     /\ UNCHANGED <<pc, halt>>
    /\ UNCHANGED <<df, modified_names, names, selectVars, best_score,
                   best_comb, foldVars>>

\* lines 185-195: after the loop (exhausted or left by break)
FlattenPool ==
    /\ \/ pc = "rows" /\ idx > Len(df)
       \/ pc = "broke"
    /\ best_score' = [size |-> PosInf, tmp |-> PosInf, range |-> PosInf,
                      mean |-> PosInf]
    /\ best_comb' = <<>>
    /\ primers_all' = Flatten(primers_all)
    /\ names' = {d.name : d \in Range(Flatten(primers_all))}
    /\ pc' = "def_calculate_score"
    /\ UNCHANGED <<halt, runVars, selectVars, foldVars>>

\* line 198: the default target_tm=target_tm is evaluated when the def
\* statement runs; no global of that name exists.
DefCalculateScore ==
    /\ pc = "def_calculate_score"
    /\ pc' = "halted"
    /\ halt' = "NameError: target_tm (line 198)"
    /\ UNCHANGED <<runVars, primers_all, names, selectVars, best_score,
                   best_comb, foldVars>>

Tables == UNION { [1..n -> RowChoices] : n \in 0..MaxRows }

IdleSelect ==
    /\ eval = 1
    /\ combinations = <<>>
    /\ valid_combinations = <<>>
    /\ num_valid_combinations = Unbound

IdleFold ==
    /\ cpus = 1
    /\ dg = <<>>
    /\ workq = <<>>
    /\ running = {}
    /\ results = <<>>
    /\ finished = <<>>
    /\ snapshot = {}
    /\ folded = <<>>
    /\ written = FALSE

\* the state at line 136
InitRun ==
    /\ pc = "rows"
    /\ halt = ""
    /\ df \in Tables
    /\ idx = 1
    /\ seen_names = {}
    /\ modified_names = <<>>
    /\ primers_all = <<>>
    /\ names = {}
    /\ calls = <<>>
    /\ best_score = None
    /\ best_comb = None
    /\ IdleSelect
    /\ IdleFold

NextRun ==
    \/ RowTooLarge
    \/ RowNameSeen
    \/ RowDesign
    \/ FlattenPool
    \/ DefCalculateScore

SpecRun == InitRun /\ [][NextRun]_vars

----------------------------------------------------------------------------
(* Enumeration of the combinations, lines 223-240 *)

\* itertools.combinations(range(1, n+1), r): whether the index tuple c has a
\* successor, and the successor (the rightmost index that can move is
\* raised by one, the indices after it follow consecutively)
Movable(c, n) == {p \in DOMAIN c : c[p] /= p + n - Len(c)}

NextCombination(c, n) ==
    LET i == Max(Movable(c, n))
    IN  [p \in DOMAIN c |-> IF p < i THEN c[p] ELSE c[i] + 1 + (p - i)]

\* the tuples the iterator hands out from c on, at most `limit` of them
RECURSIVE TakeFrom(_, _, _)
TakeFrom(c, n, limit) ==
    IF limit = 0 THEN <<>>
    ELSE <<c>> \o (IF Movable(c, n) = {} THEN <<>>
                   ELSE TakeFrom(NextCombination(c, n), n, limit - 1))

\* every tuple from c on
RECURSIVE AllFrom(_, _)
AllFrom(c, n) ==
    <<c>> \o (IF Movable(c, n) = {} THEN <<>>
              ELSE AllFrom(NextCombination(c, n), n))

\* line 229: the cap on the raw subsets
raw_limit_5(e) ==
    5 * e

raw_limit(e) ==
    4 * e

\* line 229: itertools.islice(itertools.combinations(pool, r), limit), as
\* tuples of 1-based positions in the pool
islice_combinations(n, r, limit) ==
    IF r > n THEN <<>> ELSE TakeFrom([p \in 1..r |-> p], n, limit)

\* line 206: itertools.combinations(comb, 2), as pairs of the members
pairs_of(comb) ==
    LET ps == IF Len(comb) < 2 THEN <<>>
              ELSE AllFrom(<<1, 2>>, Len(comb))
    IN  [j \in DOMAIN ps |-> <<comb[ps[j][1]], comb[ps[j][2]]>>]

\* line 232: set(entry['name'] for entry in c) == names
covers_subset(c, pool, nms) ==
    {pool[j].name : j \in Range(c)} \subseteq nms

covers(c, pool, nms) ==
    {pool[j].name : j \in Range(c)} = nms

\* line 232
filter_valid(cs, pool, nms) ==
    SelectSeq(cs, LAMBDA c : covers(c, pool, nms))

\* line 235: itertools.islice(seq, stop)
islice(s, stop) ==
    SubSeq(s, 1, IF stop < Len(s) THEN stop ELSE Len(s))

InitialBest ==
    [mean |-> PosInf, range |-> PosInf, tmp |-> PosInf, size |-> PosInf]

\* line 229
raw_combinations(pool, nms, e) ==
    islice_combinations(Len(pool), Cardinality(nms), raw_limit(e))

\* lines 232-235
select_valid(cs, pool, nms, e) ==
    islice(filter_valid(cs, pool, nms), e)

\* lines 223-225
NotEnoughTargets ==
    /\ pc = "gate"
    /\ Cardinality(names) <= 1
    /\ pc' = "halted"
    /\ halt' = "exit(1): not enough targets"
    /\ UNCHANGED <<runVars, primers_all, names, selectVars, best_score,
                   best_comb, foldVars>>

\* lines 226-238
Enumerate ==
    /\ pc = "gate"
    /\ Cardinality(names) > 1
    /\ combinations' = raw_combinations(primers_all, names, eval)
    /\ valid_combinations' =
         select_valid(combinations', primers_all, names, eval)
    /\ best_score' = InitialBest
    /\ best_comb' = None
    /\ pc' = "count"
    /\ UNCHANGED <<halt, runVars, primers_all, names, eval,
                   num_valid_combinations, foldVars>>

\* line 240: len() of an itertools.islice object raises, and the assignment
\* to num_valid_combinations does not happen
CountValid ==
    /\ pc = "count"
    /\ pc' = "halted"
    /\ halt' = "TypeError: len() of islice (line 240)"
    /\ UNCHANGED <<runVars, primers_all, names, selectVars, best_score,
                   best_comb, foldVars>>

\* The pools the region loop builds: one group of 1..MaxRet pairs for each
\* region that yielded pairs, the groups in table order, the names distinct.
Shapes == UNION { [1..n -> 1..MaxRet] : n \in 0..MaxGroups }

GroupName(g) == NameOf(<<100 * g, 100 * g + 400>>)

PoolOf(shape, off) ==
    Flatten([g \in DOMAIN shape |->
               design_primers(GroupName(g),
                              [raises |-> FALSE, num |-> shape[g],
                               keys |-> shape[g], off |-> off]).value])

NamesOf(pool) == {d.name : d \in Range(pool)}

IdleRun ==
    /\ df = <<>>
    /\ idx = 1
    /\ seen_names = {}
    /\ modified_names = <<>>
    /\ calls = <<>>

\* the state at line 223, for every pool
InitSelect ==
    /\ pc = "gate"
    /\ halt = ""
    /\ IdleRun
    /\ \E shape \in Shapes, off \in TmOffsets :
         primers_all = PoolOf(shape, off)
    /\ names = NamesOf(primers_all)
    /\ eval \in 1..MaxEval
    /\ combinations = <<>>
    /\ valid_combinations = <<>>
    /\ num_valid_combinations = Unbound
    /\ best_score = InitialBest
    /\ best_comb = <<>>
    /\ IdleFold

NextSelect ==
    \/ NotEnoughTargets
    \/ Enumerate
    \/ CountValid

SpecSelect == InitSelect /\ [][NextSelect]_vars

----------------------------------------------------------------------------
(* Scoring and the best-score fold, lines 198-220 and 242-261 *)

\* line 212: the energy of the forward primer of p1 against the reverse
\* primer of p2
PairKey(p1, p2) == <<p1.Forward_Primer, p2.Reverse_Primer>>

\* lines 198-220, for a combination given as positions in the pool
calculate_score(comb, pool, dgf) ==
    LET product_sizes == {d.Product_Size : d \in Range(pool)}
        tm_values == {d.Forward_tm : d \in Range(pool)}
                     \cup {d.Reverse_tm : d \in Range(pool)}
        primer_pairs == pairs_of([j \in DOMAIN comb |-> pool[comb[j]]])
        heterodimer_scores ==
            [j \in DOMAIN primer_pairs |->
               dgf[PairKey(primer_pairs[j][1], primer_pairs[j][2])]]
    IN  [size  |-> Fin(Max(product_sizes) - Min(product_sizes)),
         tmp   |-> Fin(Max(tm_values) - Min(tm_values)),
         mean  |-> Fin(Sum(heterodimer_scores) \div Len(heterodimer_scores)),
         range |-> Fin(Abs(Min(Range(heterodimer_scores)))
                       - Abs(Max(Range(heterodimer_scores))))]

\* lines 248-254: whether the score replaces the best
is_better_flipped(best, score) ==
    /\ GT(score.mean, best.mean)
    /\ \/ ScaledGT(best.range, score.range)
       \/ GT4(best.tmp)
       \/ (GT4(score.tmp) /\ GT(best.tmp, score.tmp))

is_better(best, score) ==
    /\ GT(best.mean, score.mean)
    /\ \/ ScaledGT(best.range, score.range)
       \/ GT4(best.tmp)
       \/ (GT4(score.tmp) /\ GT(best.tmp, score.tmp))

\* lines 246-254: one turn of the loop, on the pair <<best_score, best_comb>>
fold_step_keeps_score(best, score, comb) ==
    IF is_better(best[1], score) THEN <<best[1], comb>> ELSE best

fold_step(best, score, comb) ==
    IF is_better(best[1], score) THEN <<score, comb>> ELSE best

Tasks == DOMAIN valid_combinations

\* the combinations line 244 has submitted so far
Submitted == Len(workq) + Cardinality(running) + Cardinality(DOMAIN results)

\* line 244: the comprehension submits the next valid combination
Submit ==
    /\ pc = "submit"
    /\ Submitted < Len(valid_combinations)
    /\ workq' = Append(workq, Submitted + 1)
    /\ UNCHANGED <<pc, halt, runVars, primers_all, names, selectVars,
                   best_score, best_comb, cpus, dg, running, results, finished,
                   snapshot, folded, written>>

\* a worker thread of the pool takes the oldest waiting task
WorkerStart ==
    /\ pc \in {"submit", "fold", "shutdown"}
    /\ workq /= <<>>
    /\ Cardinality(running) < cpus
    /\ running' = running \cup {Head(workq)}
    /\ workq' = Tail(workq)
    /\ UNCHANGED <<pc, halt, runVars, primers_all, names, selectVars,
                   best_score, best_comb, cpus, dg, results, finished,
                   snapshot, folded, written>>

\* a worker thread returns from calculate_score
WorkerFinish ==
    /\ pc \in {"submit", "fold", "shutdown"}
    /\ \E t \in running :
         /\ running' = running \ {t}
         /\ results' = (t :> <<calculate_score(valid_combinations[t],
                                               primers_all, dg),
                               valid_combinations[t]>>) @@ results
         /\ finished' = Append(finished, t)
    /\ UNCHANGED <<pc, halt, runVars, primers_all, names, selectVars,
                   best_score, best_comb, cpus, dg, workq, snapshot, folded,
                   written>>

\* line 245: every combination is submitted and as_completed is called; the
\* futures already finished are collected in a set
AsCompleted ==
    /\ pc = "submit"
    /\ Submitted = Len(valid_combinations)
    /\ snapshot' = Range(finished)
    /\ finished' = <<>>
    /\ pc' = "fold"
    /\ UNCHANGED <<halt, runVars, primers_all, names, selectVars, best_score,
                   best_comb, cpus, dg, workq, running, results, folded,
                   written>>

\* the future as_completed yields next: one of the set collected at the
\* call, in the set's order, then the others in the order they finish
NextYield ==
    IF snapshot /= {} THEN snapshot
    ELSE IF finished /= <<>> THEN {Head(finished)} ELSE {}

\* lines 245-258: one turn of the loop.  After the acceptance test, line 256
\* reads num_valid_combinations, which line 240 did not bind: the NameError
\* leaves the loop and the with block of line 242.
FoldStep ==
    /\ pc = "fold"
    /\ \E t \in NextYield :
         LET score == results[t][1]
             comb == results[t][2]
             next == fold_step(<<best_score, best_comb>>, score, comb)
         IN  /\ best_score' = next[1]
             /\ best_comb' = next[2]
             /\ folded' = Append(folded, t)
             /\ IF snapshot /= {}
                THEN snapshot' = snapshot \ {t} /\ UNCHANGED finished
                ELSE finished' = Tail(finished) /\ UNCHANGED snapshot
    /\ num_valid_combinations = Unbound
    /\ pc' = "shutdown"
    /\ UNCHANGED <<halt, runVars, primers_all, names, selectVars, cpus, dg,
                   workq, running, results, written>>

\* line 242, leaving the with block on the exception of line 256: the
\* executor is shut down with wait=True, the submitted tasks run to their end
\* and the NameError ends the run
Shutdown ==
    /\ pc = "shutdown"
    /\ workq = <<>>
    /\ running = {}
    /\ pc' = "halted"
    /\ halt' = "NameError: num_valid_combinations (line 256)"
    /\ UNCHANGED <<runVars, primers_all, names, selectVars, best_score,
                   best_comb, foldVars>>

\* lines 260-261, once every future was yielded (no combination was
\* submitted, else line 256 has ended the loop): args has no attribute
\* MultiPlexPrimerSet (the option is --output), so the file is never opened
WriteOutput ==
    /\ pc = "fold"
    /\ Len(folded) = Len(valid_combinations)
    /\ pc' = "halted"
    /\ halt' = "AttributeError: MultiPlexPrimerSet (line 260)"
    /\ UNCHANGED <<runVars, primers_all, names, selectVars, best_score,
                   best_comb, foldVars>>

\* The pools the fold is entered with: two or three regions
FoldShapes == {<<1, 2>>, <<2, 1>>, <<2, 2>>, <<1, 1, 2>>, <<1, 2, 2>>, <<2, 2, 2>>}

\* the candidate pairs whose energy the scoring of `combs` asks for
PairsUsed(combs, pool) ==
    UNION { { PairKey(pr[1], pr[2]) :
                pr \in Range(pairs_of([j \in DOMAIN c |-> pool[c[j]]])) } :
            c \in Range(combs) }

\* the state at line 242: lines 229-238 have run, line 240 has bound nothing
InitFold ==
    /\ pc = "submit"
    /\ halt = ""
    /\ IdleRun
    /\ \E shape \in FoldShapes, off \in TmOffsets :
         primers_all = PoolOf(shape, off)
    /\ names = NamesOf(primers_all)
    /\ eval \in 1..MaxEval
    /\ cpus \in 1..MaxCpus
    /\ combinations = raw_combinations(primers_all, names, eval)
    /\ valid_combinations =
         select_valid(combinations, primers_all, names, eval)
    /\ num_valid_combinations = Unbound
    /\ dg \in [PairsUsed(valid_combinations, primers_all) -> DgValues]
    /\ best_score = InitialBest
    /\ best_comb = None
    /\ workq = <<>>
    /\ running = {}
    /\ results = <<>>
    /\ finished = <<>>
    /\ snapshot = {}
    /\ folded = <<>>
    /\ written = FALSE

NextFold ==
    \/ Submit
    \/ WorkerStart
    \/ WorkerFinish
    \/ AsCompleted
    \/ FoldStep
    \/ Shutdown
    \/ WriteOutput

SpecFold == InitFold /\ [][NextFold]_vars

----------------------------------------------------------------------------
(* Properties of the best-score fold (SpecFold) *)

\* the task the step just consumed
Consumed == folded'[Len(folded')]
IsFoldStep == Len(folded') = Len(folded) + 1

\* the acceptance rule as the specification words it
ClaimedRule(B, S) ==
    /\ GT(B.mean, S.mean)
    /\ \/ ScaledGT(B.range, S.range)
       \/ ((GT4(B.tmp) \/ GT4(S.tmp)) /\ GT(B.tmp, S.tmp))

C7_EmptyBestIsReported ==
    (pc = "halted" /\ best_comb = None)
        => (halt = "exit(1): no viable multiplex set found" /\ ~written)

----------------------------------------------------------------------------
(* Properties of the enumeration (SpecSelect) *)

RECURSIVE Binomial(_, _)
Binomial(n, k) ==
    IF k = 0 THEN 1
    ELSE IF n < k THEN 0
    ELSE Binomial(n - 1, k - 1) + Binomial(n - 1, k)

\* the place of the increasing tuple c among the Len(c)-subsets of 1..n in
\* lexicographic order, counted from 1
LexRank(c, n) ==
    1 + Sum([p \in DOMAIN c |->
               LET prev == IF p = 1 THEN 0 ELSE c[p - 1]
               IN  Sum([v \in 1..(c[p] - prev - 1) |->
                          Binomial(n - (prev + v), Len(c) - p)])])

Increasing(c) == \A a, b \in DOMAIN c : a < b => c[a] < c[b]

\* how many candidates of the pool carry the name
CountOf(nm, pool) == Cardinality({j \in DOMAIN pool : pool[j].name = nm})

RECURSIVE ProductOfCounts(_, _)
ProductOfCounts(nms, pool) ==
    IF nms = {} THEN 1
    ELSE LET nm == CHOOSE x \in nms : TRUE
         IN  CountOf(nm, pool) * ProductOfCounts(nms \ {nm}, pool)

Enumerated == pc = "count" \/ halt = "TypeError: len() of islice (line 240)"

\* C2: every combination kept for scoring has exactly k candidates, k the
\* number of distinct region names of the pool, and holds each of these
\* names exactly once.
C2_ExactCover ==
    \A c \in Range(valid_combinations) :
      /\ Len(c) = Cardinality(NamesOf(primers_all))
      /\ Increasing(c)
      /\ \A nm \in NamesOf(primers_all) :
           Cardinality({j \in DOMAIN c : primers_all[c[j]].name = nm}) = 1

\* the filter kept some subsets and dropped others
C2_Witness ==
    /\ pc = "count"
    /\ valid_combinations /= <<>>
    /\ \E c \in Range(combinations) : c \notin Range(valid_combinations)

\* C3: at most 4 * eval raw subsets are examined, they are the first ones
\* of the k-subsets of the pool in lexicographic order, and at most eval
\* valid combinations are kept for scoring.
C3_Caps ==
    LET n == Len(primers_all)
        k == Cardinality(NamesOf(primers_all))
    IN  /\ Len(combinations) <= 4 * eval
        /\ \A j \in DOMAIN combinations :
             /\ Len(combinations[j]) = k
             /\ Range(combinations[j]) \subseteq 1..n
             /\ Increasing(combinations[j])
             /\ LexRank(combinations[j], n) = j
        /\ Enumerated =>
             Len(combinations) = IF Binomial(n, k) < 4 * eval
                                 THEN Binomial(n, k) ELSE 4 * eval
        /\ Len(valid_combinations) <= eval
        /\ Range(valid_combinations) \subseteq Range(combinations)

\* both caps cut: the pool has more subsets than 4 * eval and more valid
\* combinations than eval
C3_Witness ==
    /\ pc = "count"
    /\ Binomial(Len(primers_all), Cardinality(names)) > 4 * eval
    /\ Len(combinations) = 4 * eval
    /\ ProductOfCounts(names, primers_all) > eval
    /\ Len(valid_combinations) = eval

----------------------------------------------------------------------------
(* Properties of the region loop (SpecRun) *)

TooLarge(row) == row[2] - row[1] > product_size_max

\* whether lines 185-195 have run
Flattened ==
    pc = "def_calculate_score" \/ halt = "NameError: target_tm (line 198)"

PoolNow == IF Flattened THEN primers_all ELSE Flatten(primers_all)

\* C5, as the claim states it: when the region table yields fewer than 2
\* distinct target names, the run aborts with the "not enough targets"
\* diagnostic, and no candidate generation has been performed.
C5_FewTargetsAbortBeforeDesign ==
    Cardinality({NameOf(df[j]) : j \in DOMAIN df}) < 2
        => /\ calls = <<>>
           /\ pc = "halted" => halt = "exit(1): not enough targets"

\* C6, as the claim states it: when a row of the table is larger than the
\* maximum product size, no candidate generation occurs for any region and
\* the run does not go on past the region loop.
C6_TooLargeAbortsBeforeDesign ==
    (\E j \in DOMAIN df : TooLarge(df[j]))
        => /\ calls = <<>>
           /\ pc /= "def_calculate_score"

\* C8, as the claim states it: a region whose candidate generation failed
\* (the service raised, or reported zero pairs) contributes nothing to the
\* pool and does not end the run.
C8_FailureIsRecovered ==
    \A j \in DOMAIN calls :
      (calls[j].primers.raises \/ calls[j].primers.num = 0)
        => /\ \A d \in Range(PoolNow) : d.name /= calls[j].name
           /\ halt /= "uncaught exception of designPrimers (line 92)"

\* C9, as the claim states it: a row with the start and end of an earlier
\* row gets a name of its own: once the loop has dealt with the row, primers
\* were designed for it under a name no earlier row was designed under.
C9_DuplicateRowRenamed ==
    \A j \in DOMAIN df :
      ( /\ \E h \in 1..(j - 1) : df[h] = df[j]
        /\ (idx > j \/ (idx = j /\ pc = "halted")) )
        => \E a \in DOMAIN calls :
             /\ calls[a].row = j
             /\ \A b \in DOMAIN calls :
                  calls[b].row < j => calls[b].name /= calls[a].name

====
